---- MODULE Spec2Model ----
(***************************************************************************)
(* Verification model of two decision procedures of the browser code base: *)
(*                                                                         *)
(*   - web_modal::WebContentsModalDialogManager                            *)
(*       components/web_modal/web_contents_modal_dialog_manager.cc         *)
(*   - LanguageDetectionUtil (language code correction)                    *)
(*       chrome/common/translate/language_detection_util.cc                *)
(*                                                                         *)
(* The dialog manager is modelled with its delegate attached and with a    *)
(* live WebContents and RenderViewHost, so BlockWebContentsInteraction     *)
(* always reaches the delegate.  The native manager (the platform dialog   *)
(* adapter) is outside the manager: the model records the requests the     *)
(* manager makes to it, and the adapter answers a CloseDialog request      *)
(* either by delivering WillClose before it returns or not at all.         *)
(*                                                                         *)
(* Strings are sequences of ASCII codes.  The helpers of base/ (trimming,  *)
(* case conversion, splitting, StartsWithASCII), the synonym table of      *)
(* TranslateUtil, chrome::kUnknownLanguageCode and CLD itself are outside  *)
(* the two files; CLD is an oracle whose answer is an input.               *)
(***************************************************************************)
EXTENDS Integers, Sequences, FiniteSets, TLC

\* ------------------------------------------------------------------------
\* Bounds
\* ------------------------------------------------------------------------

\* number of distinct native dialog handles
NumHandles == 2

\* longest dialog list explored
MaxDialogs == 3

\* CloseDialog requests of one CloseAllDialogs call the adapter may leave
\* unanswered
MaxSpins == 1

\* longest input string of the language code correction
MaxLen == 4

\* the native dialog handles
Handles == 1..NumHandles

VARIABLES
    child_dialogs,        \* child_dialogs_: the list of DialogState
    closing_all_dialogs,  \* closing_all_dialogs_
    visible,              \* delegate_->IsWebContentsVisible(web_contents())
    blocked,              \* last value given to SetWebContentsBlocked
    native_request,       \* per handle: last show/hide/close request made
    calls,                \* collaborator calls made by the current operation
    lastOp,               \* the operation invoked last
    pre,                  \* the list and blocked state when it was invoked
    spins,                \* unanswered CloseDialog requests of CloseAllDialogs
    pc,                   \* "idle", "closing", "crashed", "destroyed"
    code,                 \* the language code given to the correction
    corrected,            \* the results of the corrections applied so far
    page,                 \* the inputs of DeterminePageLanguage
    verdict               \* what DeterminePageLanguage returned and reported

dialogVars == <<child_dialogs, closing_all_dialogs, visible, blocked,
                native_request, calls, lastOp, pre, spins, pc>>

langVars == <<code, corrected, page, verdict>>

vars == <<child_dialogs, closing_all_dialogs, visible, blocked,
          native_request, calls, lastOp, pre, spins, pc,
          code, corrected, page, verdict>>

\* ------------------------------------------------------------------------
\* WebContentsModalDialogManager
\* ------------------------------------------------------------------------

\* DialogState::DialogState(dialog)
DialogState(dialog) ==
    [dialog |-> dialog, prevent_close_on_load_start |-> FALSE]

\* a call on native_manager_
NativeCall(fn, dialog) == [fn |-> fn, dialog |-> dialog]

\* BlockWebContentsInteraction(blocked): delegate_->SetWebContentsBlocked
BlockWebContentsInteraction(b) ==
    [fn |-> "SetWebContentsBlocked", flag |-> b]

\* child_dialogs_.end()
End(list) == Len(list) + 1

\* FindDialogState: position of the first entry of the dialog, or end()
FindDialogState(list, dialog) ==
    IF \E i \in 1..Len(list) : list[i].dialog = dialog
    THEN CHOOSE i \in 1..Len(list) :
            /\ list[i].dialog = dialog
            /\ \A j \in 1..(i - 1) : list[j].dialog # dialog
    ELSE End(list)

\* child_dialogs_.erase(i)
Erase(list, i) == SubSeq(list, 1, i - 1) \o SubSeq(list, i + 1, Len(list))

\* IsShowingDialog()
IsShowingDialog == child_dialogs # <<>>

DialogsOf(list) == {list[i].dialog : i \in 1..Len(list)}

\* the effect of one native_manager_ call on the adapter's record
RequestAfter(req, call) ==
    CASE call.fn = "ShowDialog"  -> [req EXCEPT ![call.dialog] = "show"]
      [] call.fn = "HideDialog"  -> [req EXCEPT ![call.dialog] = "hide"]
      [] call.fn = "CloseDialog" -> [req EXCEPT ![call.dialog] = "close"]
      [] OTHER -> req

RECURSIVE RequestsAfter(_, _)
RequestsAfter(req, cs) ==
    IF cs = <<>> THEN req
    ELSE RequestsAfter(RequestAfter(req, Head(cs)), Tail(cs))

RECURSIVE BlockedAfter(_, _)
BlockedAfter(b, cs) ==
    IF cs = <<>> THEN b
    ELSE BlockedAfter(IF Head(cs).fn = "SetWebContentsBlocked"
                      THEN Head(cs).flag ELSE b, Tail(cs))

\* the record of an invoked operation
Op(op) == [op |-> op]

OpOnDialog(op, dialog) == [op |-> op, dialog |-> dialog]

\* the state an operation starts from
Snapshot == [child_dialogs |-> child_dialogs, blocked |-> blocked,
             closing_all_dialogs |-> closing_all_dialogs,
             visible |-> visible]

\* no operation is running
Idle == pc = "idle"

\* ShowDialog that blocks the host only when it also shows the dialog
ShowDialogCalls_BlockIfVisible(list, dialog, is_visible) ==
    <<NativeCall("ManageDialog", dialog)>> \o
    (IF Len(list) + 1 = 1 /\ is_visible
     THEN <<NativeCall("ShowDialog", dialog), BlockWebContentsInteraction(TRUE)>>
     ELSE <<>>)

\* ShowDialog: the collaborator calls
ShowDialogCalls(list, dialog, is_visible) ==
    <<NativeCall("ManageDialog", dialog)>> \o
    (IF Len(list) + 1 = 1
     THEN (IF is_visible THEN <<NativeCall("ShowDialog", dialog)>> ELSE <<>>)
          \o <<BlockWebContentsInteraction(TRUE)>>
     ELSE <<>>)

\* ShowDialog: the list afterwards
ShowDialogList(list, dialog) == Append(list, DialogState(dialog))

ShowDialog(dialog) ==
    /\ Idle
    /\ Len(child_dialogs) < MaxDialogs
    /\ child_dialogs' = ShowDialogList(child_dialogs, dialog)
    /\ calls' = ShowDialogCalls(child_dialogs, dialog, visible)
    /\ native_request' = RequestsAfter(native_request, calls')
    /\ blocked' = BlockedAfter(blocked, calls')
    /\ lastOp' = OpOnDialog("ShowDialog", dialog)
    /\ pre' = Snapshot
    /\ UNCHANGED <<closing_all_dialogs, visible, spins, pc, langVars>>

\* WillClose: the list afterwards
WillCloseList(list, dialog) ==
    LET i == FindDialogState(list, dialog) IN
    IF i = End(list) THEN list ELSE Erase(list, i)

\* WillClose that shows the back entry instead of the front one
WillCloseCalls_ShowsBack(list, dialog, closing_all) ==
    LET i == FindDialogState(list, dialog)
        removed_topmost_dialog == i = 1
        rest == Erase(list, i)
    IN  IF i = End(list) THEN <<>>
        ELSE (IF rest # <<>> /\ removed_topmost_dialog /\ ~closing_all
              THEN <<NativeCall("ShowDialog", rest[Len(rest)].dialog)>>
              ELSE <<>>)
             \o <<BlockWebContentsInteraction(rest # <<>>)>>

\* WillClose that shows the front entry whichever entry was removed
WillCloseCalls_ShowsAlways(list, dialog, closing_all) ==
    LET i == FindDialogState(list, dialog)
        rest == Erase(list, i)
    IN  IF i = End(list) THEN <<>>
        ELSE (IF rest # <<>> /\ ~closing_all
              THEN <<NativeCall("ShowDialog", rest[1].dialog)>>
              ELSE <<>>)
             \o <<BlockWebContentsInteraction(rest # <<>>)>>

\* WillClose that unblocks the host on every removal
WillCloseCalls_Unblocks(list, dialog, closing_all) ==
    LET i == FindDialogState(list, dialog)
        removed_topmost_dialog == i = 1
        rest == Erase(list, i)
    IN  IF i = End(list) THEN <<>>
        ELSE (IF rest # <<>> /\ removed_topmost_dialog /\ ~closing_all
              THEN <<NativeCall("ShowDialog", rest[1].dialog)>>
              ELSE <<>>)
             \o <<BlockWebContentsInteraction(FALSE)>>

\* WillClose without the early return for a dialog that is not in the list
WillCloseCalls_NoEarlyReturn(list, dialog, closing_all) ==
    LET i == FindDialogState(list, dialog)
        removed_topmost_dialog == i = 1
        rest == WillCloseList(list, dialog)
    IN  (IF rest # <<>> /\ removed_topmost_dialog /\ ~closing_all
         THEN <<NativeCall("ShowDialog", rest[1].dialog)>>
         ELSE <<>>)
        \o <<BlockWebContentsInteraction(rest # <<>>)>>

\* WillClose that shows the next entry also while all dialogs are closed
WillCloseCalls_IgnoresGuard(list, dialog, closing_all) ==
    LET i == FindDialogState(list, dialog)
        removed_topmost_dialog == i = 1
        rest == Erase(list, i)
    IN  IF i = End(list) THEN <<>>
        ELSE (IF rest # <<>> /\ removed_topmost_dialog
              THEN <<NativeCall("ShowDialog", rest[1].dialog)>>
              ELSE <<>>)
             \o <<BlockWebContentsInteraction(rest # <<>>)>>

\* WillClose: the collaborator calls
WillCloseCalls(list, dialog, closing_all) ==
    LET i == FindDialogState(list, dialog)
        removed_topmost_dialog == i = 1
        rest == Erase(list, i)
    IN  IF i = End(list) THEN <<>>
        ELSE (IF rest # <<>> /\ removed_topmost_dialog /\ ~closing_all
              THEN <<NativeCall("ShowDialog", rest[1].dialog)>>
              ELSE <<>>)
             \o <<BlockWebContentsInteraction(rest # <<>>)>>

\* WillClose: the adapter's record; the closed dialog is gone
WillCloseRequests(req, list, dialog, closing_all) ==
    LET i == FindDialogState(list, dialog)
        gone == IF i = End(list) THEN req ELSE [req EXCEPT ![dialog] = "none"]
    IN  RequestsAfter(gone, WillCloseCalls(list, dialog, closing_all))

WillClose(dialog) ==
    /\ Idle
    /\ child_dialogs' = WillCloseList(child_dialogs, dialog)
    /\ calls' = WillCloseCalls(child_dialogs, dialog, closing_all_dialogs)
    /\ native_request' = WillCloseRequests(native_request, child_dialogs,
                                           dialog, closing_all_dialogs)
    /\ blocked' = BlockedAfter(blocked, calls')
    /\ lastOp' = OpOnDialog("WillClose", dialog)
    /\ pre' = Snapshot
    /\ UNCHANGED <<closing_all_dialogs, visible, spins, pc, langVars>>

\* SetPreventCloseOnLoadStart: the list afterwards, for a dialog in the list
SetPreventList(list, dialog, prevent) ==
    LET loc == FindDialogState(list, dialog) IN
    [list EXCEPT ![loc].prevent_close_on_load_start = TRUE]

\* SetPreventCloseOnLoadStart.  For a dialog that is not in the list the
\* DCHECK fails (debug build) or the store goes through end() (release
\* build): the process dies, or the store lands outside every entry.
SetPreventCloseOnLoadStart(dialog, prevent) ==
    /\ Idle
    /\ calls' = <<>>
    /\ lastOp' = [op |-> "SetPreventCloseOnLoadStart", dialog |-> dialog,
                   prevent |-> prevent]
    /\ pre' = Snapshot
    /\ IF FindDialogState(child_dialogs, dialog) # End(child_dialogs)
       THEN /\ child_dialogs' = SetPreventList(child_dialogs, dialog, prevent)
            /\ pc' = pc
       ELSE /\ child_dialogs' = child_dialogs
            /\ pc' \in {"crashed", pc}
    /\ UNCHANGED <<closing_all_dialogs, visible, blocked, native_request,
                   spins, langVars>>

\* Observe(NOTIFICATION_WEB_CONTENTS_VISIBILITY_CHANGED) that shows or hides
\* every entry of the list
VisibilityChangedCalls_EveryEntry(list, is_visible) ==
    [i \in 1..Len(list) |->
        NativeCall(IF is_visible THEN "ShowDialog" ELSE "HideDialog",
                   list[i].dialog)]

\* Observe(NOTIFICATION_WEB_CONTENTS_VISIBILITY_CHANGED): the calls
VisibilityChangedCalls(list, is_visible) ==
    IF list = <<>> THEN <<>>
    ELSE IF is_visible
         THEN <<NativeCall("ShowDialog", list[1].dialog)>>
         ELSE <<NativeCall("HideDialog", list[1].dialog)>>

ObserveVisibilityChanged(is_visible) ==
    /\ Idle
    /\ visible' = is_visible
    /\ calls' = VisibilityChangedCalls(child_dialogs, is_visible)
    /\ native_request' = RequestsAfter(native_request, calls')
    /\ lastOp' = [op |-> "ObserveVisibilityChanged", visible |-> is_visible]
    /\ pre' = Snapshot
    /\ UNCHANGED <<child_dialogs, closing_all_dialogs, blocked, spins, pc,
                   langVars>>

\* Observe(NOTIFICATION_LOAD_START) that does not look at the flag
LoadStartCalls_IgnoresFlag(list) ==
    IF list # <<>>
    THEN <<NativeCall("CloseDialog", list[1].dialog)>>
    ELSE <<>>

\* Observe(NOTIFICATION_LOAD_START): the calls
LoadStartCalls(list) ==
    IF list # <<>> /\ ~list[1].prevent_close_on_load_start
    THEN <<NativeCall("CloseDialog", list[1].dialog)>>
    ELSE <<>>

\* Observe(NOTIFICATION_LOAD_START).  The handler only makes the request;
\* the WillClose that answers it is the WillClose action.
ObserveLoadStart ==
    /\ Idle
    /\ calls' = LoadStartCalls(child_dialogs)
    /\ native_request' = RequestsAfter(native_request, calls')
    /\ lastOp' = Op("ObserveLoadStart")
    /\ pre' = Snapshot
    /\ UNCHANGED <<child_dialogs, closing_all_dialogs, visible, blocked,
                   spins, pc, langVars>>

\* FocusTopmostDialog.  On an empty list the DCHECK fails or front() reads
\* an entry that is not there.
FocusTopmostDialog ==
    /\ Idle
    /\ lastOp' = Op("FocusTopmostDialog")
    /\ pre' = Snapshot
    /\ IF child_dialogs # <<>>
       THEN /\ calls' = <<NativeCall("FocusDialog", child_dialogs[1].dialog)>>
            /\ pc' = pc
       ELSE \/ /\ calls' = <<>>
               /\ pc' = "crashed"
            \/ /\ \E g \in Handles : calls' = <<NativeCall("FocusDialog", g)>>
               /\ pc' = pc
    /\ UNCHANGED <<child_dialogs, closing_all_dialogs, visible, blocked,
                   native_request, spins, langVars>>

\* DidGetIgnoredUIEvent
DidGetIgnoredUIEvent ==
    /\ Idle
    /\ calls' = IF child_dialogs # <<>>
                THEN <<NativeCall("FocusDialog", child_dialogs[1].dialog)>>
                ELSE <<>>
    /\ lastOp' = Op("DidGetIgnoredUIEvent")
    /\ pre' = Snapshot
    /\ UNCHANGED <<child_dialogs, closing_all_dialogs, visible, blocked,
                   native_request, spins, pc, langVars>>

\* CloseAllDialogs, entry: closing_all_dialogs_ = true
CloseAllDialogs ==
    /\ Idle
    /\ closing_all_dialogs' = TRUE
    /\ calls' = <<>>
    /\ spins' = 0
    /\ lastOp' = Op("CloseAllDialogs")
    /\ pre' = Snapshot
    /\ pc' = "closing"
    /\ UNCHANGED <<child_dialogs, visible, blocked, native_request, langVars>>

\* WebContentsDestroyed: CloseAllDialogs()
WebContentsDestroyed ==
    /\ Idle
    /\ closing_all_dialogs' = TRUE
    /\ calls' = <<>>
    /\ spins' = 0
    /\ lastOp' = Op("WebContentsDestroyed")
    /\ pre' = Snapshot
    /\ pc' = "closing"
    /\ UNCHANGED <<child_dialogs, visible, blocked, native_request, langVars>>

\* CloseAllDialogs, one turn of the loop in which the adapter delivers
\* WillClose for the dialog before CloseDialog returns
CloseAllLoopClosed ==
    /\ pc = "closing"
    /\ child_dialogs # <<>>
    /\ LET dialog == child_dialogs[1].dialog
           request == <<NativeCall("CloseDialog", dialog)>>
           closed == WillCloseCalls(child_dialogs, dialog, closing_all_dialogs)
       IN  /\ calls' = calls \o request \o closed
           /\ native_request' =
                  WillCloseRequests(RequestsAfter(native_request, request),
                                    child_dialogs, dialog, closing_all_dialogs)
           /\ child_dialogs' = WillCloseList(child_dialogs, dialog)
           /\ blocked' = BlockedAfter(blocked, closed)
    /\ UNCHANGED <<closing_all_dialogs, visible, lastOp, pre, spins, pc,
                   langVars>>

\* a loop that drops the front entry itself after a request that was not
\* answered
CloseAllLoopPending_PopsFront ==
    /\ pc = "closing"
    /\ child_dialogs # <<>>
    /\ spins < MaxSpins
    /\ spins' = spins + 1
    /\ child_dialogs' = Tail(child_dialogs)
    /\ LET request == <<NativeCall("CloseDialog", child_dialogs[1].dialog)>>
       IN  /\ calls' = calls \o request
           /\ native_request' = RequestsAfter(native_request, request)
    /\ UNCHANGED <<closing_all_dialogs, visible, blocked,
                   lastOp, pre, pc, langVars>>

\* CloseAllDialogs, one turn of the loop in which CloseDialog returns and no
\* WillClose has arrived
CloseAllLoopPending ==
    /\ pc = "closing"
    /\ child_dialogs # <<>>
    /\ spins < MaxSpins
    /\ spins' = spins + 1
    /\ LET request == <<NativeCall("CloseDialog", child_dialogs[1].dialog)>>
       IN  /\ calls' = calls \o request
           /\ native_request' = RequestsAfter(native_request, request)
    /\ UNCHANGED <<child_dialogs, closing_all_dialogs, visible, blocked,
                   lastOp, pre, pc, langVars>>

\* CloseAllDialogs, exit: closing_all_dialogs_ = false
CloseAllReturn ==
    /\ pc = "closing"
    /\ child_dialogs = <<>>
    /\ closing_all_dialogs' = FALSE
    /\ pc' = IF lastOp.op = "WebContentsDestroyed" THEN "destroyed" ELSE "idle"
    /\ UNCHANGED <<child_dialogs, visible, blocked, native_request, calls,
                   lastOp, pre, spins, langVars>>

\* the manager after its constructor
InitDialogs ==
    /\ child_dialogs = <<>>
    /\ closing_all_dialogs = FALSE
    /\ visible \in BOOLEAN
    /\ blocked = FALSE
    /\ native_request = [h \in Handles |-> "none"]
    /\ calls = <<>>
    /\ lastOp = Op("constructor")
    /\ pre = [child_dialogs |-> <<>>, blocked |-> FALSE,
              closing_all_dialogs |-> FALSE, visible |-> visible]
    /\ spins = 0
    /\ pc = "idle"

\* no page language has been determined
NoVerdict == [done |-> FALSE]

\* a page without language information and without text
NoPage == [code |-> <<>>, html_lang |-> <<>>, cld |-> "UNKNOWN_LANGUAGE",
           is_reliable |-> FALSE, text_bytes |-> 0, enabled |-> TRUE]

InitLangIdle ==
    /\ code = <<>>
    /\ corrected = <<>>
    /\ page = NoPage
    /\ verdict = NoVerdict

Init == InitDialogs /\ InitLangIdle

Next ==
    \/ \E dialog \in Handles : ShowDialog(dialog)
    \/ \E dialog \in Handles : WillClose(dialog)
    \/ \E dialog \in Handles, prevent \in BOOLEAN :
           SetPreventCloseOnLoadStart(dialog, prevent)
    \/ \E is_visible \in BOOLEAN : ObserveVisibilityChanged(is_visible)
    \/ ObserveLoadStart
    \/ FocusTopmostDialog
    \/ DidGetIgnoredUIEvent
    \/ CloseAllDialogs
    \/ WebContentsDestroyed
    \/ CloseAllLoopClosed
    \/ CloseAllLoopPending
    \/ CloseAllReturn

Spec == Init /\ [][Next]_vars

\* ------------------------------------------------------------------------
\* LanguageDetectionUtil: language code correction
\* ------------------------------------------------------------------------

\* the characters the input strings are made of: n b O 1 , _ - and space
Alphabet == {110, 98, 79, 49, 44, 95, 45, 32}

\* the strings over Alphabet of length at most n
RECURSIVE StringsUpTo(_)
StringsUpTo(n) ==
    IF n = 0 THEN {<<>>}
    ELSE LET shorter == StringsUpTo(n - 1)
         IN  shorter \cup {Append(s, c) : s \in shorter, c \in Alphabet}

\* std::string::find(c): the first position of c, 0 for npos
Find(s, c) ==
    IF \E i \in 1..Len(s) : s[i] = c
    THEN CHOOSE i \in 1..Len(s) :
            s[i] = c /\ \A j \in 1..(i - 1) : s[j] # c
    ELSE 0

IsAsciiWhitespace(c) == c \in {9, 10, 11, 12, 13, 32}

IsAsciiAlpha(c) == c \in 65..90 \/ c \in 97..122

ToLowerASCII(c) == IF c \in 65..90 THEN c + 32 ELSE c

ToUpperASCII(c) == IF c \in 97..122 THEN c - 32 ELSE c

StringToLowerASCII(s) == [i \in 1..Len(s) |-> ToLowerASCII(s[i])]

StringToUpperASCII(s) == [i \in 1..Len(s) |-> ToUpperASCII(s[i])]

\* TrimWhitespaceASCII(s, TRIM_ALL, &s)
RECURSIVE TrimWhitespaceASCII(_)
TrimWhitespaceASCII(s) ==
    IF s = <<>> THEN s
    ELSE IF IsAsciiWhitespace(s[1]) THEN TrimWhitespaceASCII(Tail(s))
    ELSE IF IsAsciiWhitespace(s[Len(s)])
         THEN TrimWhitespaceASCII(SubSeq(s, 1, Len(s) - 1))
    ELSE s

\* base::SplitString(s, c, &chunks): the parts of s between the separators,
\* taken as they stand
RECURSIVE SplitString(_, _)
SplitString(s, c) ==
    LET i == Find(s, c) IN
    IF i = 0 THEN <<s>>
    ELSE <<SubSeq(s, 1, i - 1)>> \o SplitString(SubSeq(s, i + 1, Len(s)), c)

\* the table of TranslateUtil::ToTranslateLanguageSynonym:
\* nb -> no, he -> iw, jv -> jw, fil -> tl
kLanguageCodeSynonyms ==
    << [from |-> <<110, 98>>,       to |-> <<110, 111>>],
       [from |-> <<104, 101>>,      to |-> <<105, 119>>],
       [from |-> <<106, 118>>,      to |-> <<106, 119>>],
       [from |-> <<102, 105, 108>>, to |-> <<116, 108>>] >>

\* TranslateUtil::ToTranslateLanguageSynonym
ToTranslateLanguageSynonym(s) ==
    IF \E i \in 1..Len(kLanguageCodeSynonyms) :
           kLanguageCodeSynonyms[i].from = s
    THEN kLanguageCodeSynonyms[
             CHOOSE i \in 1..Len(kLanguageCodeSynonyms) :
                 kLanguageCodeSynonyms[i].from = s].to
    ELSE s

\* the step of CorrectLanguageCodeTypo that keeps the first of several codes
KeepFirstCode(s) ==
    LET coma_index == Find(s, 44) IN
    IF coma_index # 0 THEN SubSeq(s, 1, coma_index - 1) ELSE s

\* the step of CorrectLanguageCodeTypo that turns the first underscore into
\* a dash
UnderscoreToDash(s) ==
    LET underscore_index == Find(s, 95) IN
    IF underscore_index # 0 THEN [s EXCEPT ![underscore_index] = 45] ELSE s

\* the step of CorrectLanguageCodeTypo that lowers everything up to the
\* first dash and raises everything from it on
FixCase(s) ==
    LET dash_index == Find(s, 45) IN
    IF dash_index # 0
    THEN StringToLowerASCII(SubSeq(s, 1, dash_index - 1))
         \o StringToUpperASCII(SubSeq(s, dash_index, Len(s)))
    ELSE StringToLowerASCII(s)

\* CorrectLanguageCodeTypo that fixes the case before it replaces the
\* underscore
CorrectLanguageCodeTypo_CaseFirst(s) ==
    UnderscoreToDash(FixCase(TrimWhitespaceASCII(KeepFirstCode(s))))

\* CorrectLanguageCodeTypo
CorrectLanguageCodeTypo(s) ==
    FixCase(UnderscoreToDash(TrimWhitespaceASCII(KeepFirstCode(s))))

AllAsciiAlpha(s) == \A i \in 1..Len(s) : IsAsciiAlpha(s[i])

\* IsValidLanguageCode
IsValidLanguageCode(s) ==
    LET chunks == SplitString(s, 45) IN
    IF Len(chunks) < 1 \/ 2 < Len(chunks) THEN FALSE
    ELSE LET main_code == chunks[1] IN
         IF Len(main_code) < 1 \/ 3 < Len(main_code) THEN FALSE
         ELSE IF ~AllAsciiAlpha(main_code) THEN FALSE
         ELSE IF Len(chunks) = 1 THEN TRUE
         ELSE LET sub_code == chunks[2] IN
              IF Len(sub_code) # 2 THEN FALSE
              ELSE AllAsciiAlpha(sub_code)

\* ApplyLanguageCodeCorrection
ApplyLanguageCodeCorrection(s) ==
    LET typo == CorrectLanguageCodeTypo(s) IN
    IF ~IsValidLanguageCode(typo) THEN <<>>
    ELSE ToTranslateLanguageSynonym(typo)

\* the correction is applied to the code, and then to its own result
Correct ==
    /\ Len(corrected) < 2
    /\ corrected' =
           Append(corrected,
                  ApplyLanguageCodeCorrection(
                      IF corrected = <<>> THEN code
                      ELSE corrected[Len(corrected)]))
    /\ UNCHANGED <<code, page, verdict, dialogVars>>

InitLang ==
    /\ InitDialogs
    /\ visible
    /\ code \in StringsUpTo(MaxLen)
    /\ corrected = <<>>
    /\ page = NoPage
    /\ verdict = NoVerdict

NextLang == Correct

SpecLang == InitLang /\ [][NextLang]_vars

\* ------------------------------------------------------------------------
\* LanguageDetectionUtil: DeterminePageLanguage
\* ------------------------------------------------------------------------

LowerCaseLetters ==
    <<"a", "b", "c", "d", "e", "f", "g", "h", "i", "j", "k", "l", "m",
      "n", "o", "p", "q", "r", "s", "t", "u", "v", "w", "x", "y", "z">>

UpperCaseLetters ==
    <<"A", "B", "C", "D", "E", "F", "G", "H", "I", "J", "K", "L", "M",
      "N", "O", "P", "Q", "R", "S", "T", "U", "V", "W", "X", "Y", "Z">>

\* the ASCII code of a character
CharCode(ch) ==
    IF \E i \in 1..26 : LowerCaseLetters[i] = ch
    THEN 96 + (CHOOSE i \in 1..26 : LowerCaseLetters[i] = ch)
    ELSE IF \E i \in 1..26 : UpperCaseLetters[i] = ch
    THEN 64 + (CHOOSE i \in 1..26 : UpperCaseLetters[i] = ch)
    ELSE CASE ch = "-" -> 45
           [] ch = "_" -> 95
           [] ch = "," -> 44
           [] ch = " " -> 32
           [] ch = "1" -> 49

\* the string made of the given characters
Str(chars) == [i \in 1..Len(chars) |-> CharCode(chars[i])]

\* chrome::kUnknownLanguageCode
kUnknownLanguageCode == Str(<<"u", "n", "d">>)

\* text of fewer bytes is not trusted
kMinTextBytes == 100

\* s starts with prefix: s.find(prefix) == 0
StartsWith(s, prefix) ==
    Len(s) >= Len(prefix) /\ SubSeq(s, 1, Len(prefix)) = prefix

\* StartsWithASCII(s, prefix, false): the comparison ignores the case
StartsWithASCII(s, prefix) ==
    StartsWith(StringToLowerASCII(s), StringToLowerASCII(prefix))

\* kSimilarLanguageCodes
kSimilarLanguageCodes ==
    << [code |-> Str(<<"b", "s">>), group |-> 1],
       [code |-> Str(<<"h", "r">>), group |-> 1],
       [code |-> Str(<<"h", "i">>), group |-> 2],
       [code |-> Str(<<"n", "e">>), group |-> 2] >>

\* GetSimilarLanguageGroupCode: the group of the first table code the
\* language starts with, or 0
GetSimilarLanguageGroupCode(language) ==
    LET hits == {i \in 1..Len(kSimilarLanguageCodes) :
                    StartsWith(language, kSimilarLanguageCodes[i].code)}
    IN  IF hits = {} THEN 0
        ELSE kSimilarLanguageCodes[
                 CHOOSE i \in hits : \A j \in hits : i <= j].group

\* kWellKnownCodesOnWrongConfiguration
kWellKnownCodesOnWrongConfiguration ==
    { Str(<<"e", "s">>), Str(<<"p", "t">>), Str(<<"j", "a">>),
      Str(<<"r", "u">>), Str(<<"d", "e">>),
      Str(<<"z", "h", "-", "C", "N">>), Str(<<"z", "h", "-", "T", "W">>),
      Str(<<"a", "r">>), Str(<<"i", "d">>), Str(<<"f", "r">>),
      Str(<<"i", "t">>), Str(<<"t", "h">>) }

\* the CLD results that carry no language
CldNoResult == {"NUM_LANGUAGES", "UNKNOWN_LANGUAGE", "TG_UNKNOWN_LANGUAGE"}

\* LanguageCodeWithDialects, for the languages the model lets CLD detect
LanguageCodeWithDialects(cld) ==
    CASE cld = "ENGLISH"   -> Str(<<"e", "n">>)
      [] cld = "SPANISH"   -> Str(<<"e", "s">>)
      [] cld = "FRENCH"    -> Str(<<"f", "r">>)
      [] cld = "KOREAN"    -> Str(<<"k", "o">>)
      [] cld = "CROATIAN"  -> Str(<<"h", "r">>)
      [] cld = "NEPALI"    -> Str(<<"n", "e">>)
      [] cld = "CHINESE"   -> Str(<<"z", "h", "-", "C", "N">>)
      [] cld = "CHINESE_T" -> Str(<<"z", "h", "-", "T", "W">>)

\* the languages CLD answers with
CldLanguages ==
    {"ENGLISH", "SPANISH", "FRENCH", "KOREAN", "CROATIAN", "NEPALI",
     "CHINESE", "CHINESE_T"} \cup CldNoResult

\* DetermineTextLanguage that trusts text of any length
DetermineTextLanguage_AnyLength(cld, is_reliable, text_bytes) ==
    IF is_reliable /\ cld \notin CldNoResult
    THEN LanguageCodeWithDialects(cld)
    ELSE kUnknownLanguageCode

\* DetermineTextLanguage
DetermineTextLanguage(cld, is_reliable, text_bytes) ==
    IF is_reliable /\ text_bytes >= kMinTextBytes /\ cld \notin CldNoResult
    THEN LanguageCodeWithDialects(cld)
    ELSE kUnknownLanguageCode

\* CanCLDComplementSubCode
CanCLDComplementSubCode(page_language, cld_language) ==
    /\ page_language = Str(<<"z", "h">>)
    /\ StartsWithASCII(cld_language, Str(<<"z", "h", "-">>))

\* IsSameOrSimilarLanguages
IsSameOrSimilarLanguages(page_language, cld_language) ==
    \/ /\ Len(page_language) >= 2
       /\ StartsWith(cld_language, SubSeq(page_language, 1, 2))
    \/ LET page_code == GetSimilarLanguageGroupCode(page_language)
       IN  /\ page_code # 0
           /\ page_code = GetSimilarLanguageGroupCode(cld_language)

\* MaybeServerWrongConfiguration without the test for "en"
MaybeServerWrongConfiguration_AnyLanguage(page_language, cld_language) ==
    cld_language \in kWellKnownCodesOnWrongConfiguration

\* MaybeServerWrongConfiguration
MaybeServerWrongConfiguration(page_language, cld_language) ==
    /\ StartsWithASCII(page_language, Str(<<"e", "n">>))
    /\ cld_language \in kWellKnownCodesOnWrongConfiguration

\* DeterminePageLanguage that adopts the Content-Language before the html
\* lang attribute
DeclaredLanguage_HeaderFirst(content_language, html_lang) ==
    LET modified_html_lang ==
            IF html_lang # <<>> THEN ApplyLanguageCodeCorrection(html_lang)
            ELSE <<>>
        modified_code ==
            IF content_language # <<>>
            THEN ApplyLanguageCodeCorrection(content_language)
            ELSE <<>>
    IN  IF modified_code = <<>> THEN modified_html_lang
        ELSE modified_code

\* DeterminePageLanguage: the language adopted from the page itself
DeclaredLanguage(content_language, html_lang) ==
    LET modified_html_lang ==
            IF html_lang # <<>> THEN ApplyLanguageCodeCorrection(html_lang)
            ELSE <<>>
        modified_code ==
            IF content_language # <<>>
            THEN ApplyLanguageCodeCorrection(content_language)
            ELSE <<>>
    IN  IF modified_html_lang = <<>> THEN modified_code
        ELSE modified_html_lang

\* the verification that tests for an unknown CLD language first
VerifyLanguage_UnknownFirst(language, cld_language) ==
    IF cld_language = kUnknownLanguageCode
    THEN [language |-> language, reported |-> <<"UNKNOWN">>]
    ELSE IF language = <<>>
    THEN [language |-> cld_language, reported |-> <<"CLD_ONLY">>]
    ELSE IF CanCLDComplementSubCode(language, cld_language)
    THEN [language |-> cld_language,
          reported |-> <<"CLD_COMPLEMENT_SUB_CODE">>]
    ELSE IF IsSameOrSimilarLanguages(language, cld_language)
    THEN [language |-> language, reported |-> <<"CLD_AGREE">>]
    ELSE IF MaybeServerWrongConfiguration(language, cld_language)
    THEN [language |-> cld_language, reported |-> <<"TRUST_CLD">>]
    ELSE [language |-> kUnknownLanguageCode,
          reported |-> <<"CLD_DISAGREE">>]

\* the verification that tests for agreement before the sub code
VerifyLanguage_AgreeFirst(language, cld_language) ==
    IF language = <<>>
    THEN [language |-> cld_language, reported |-> <<"CLD_ONLY">>]
    ELSE IF cld_language = kUnknownLanguageCode
    THEN [language |-> language, reported |-> <<"UNKNOWN">>]
    ELSE IF IsSameOrSimilarLanguages(language, cld_language)
    THEN [language |-> language, reported |-> <<"CLD_AGREE">>]
    ELSE IF CanCLDComplementSubCode(language, cld_language)
    THEN [language |-> cld_language,
          reported |-> <<"CLD_COMPLEMENT_SUB_CODE">>]
    ELSE IF MaybeServerWrongConfiguration(language, cld_language)
    THEN [language |-> cld_language, reported |-> <<"TRUST_CLD">>]
    ELSE [language |-> kUnknownLanguageCode,
          reported |-> <<"CLD_DISAGREE">>]

\* the verification that keeps the declared language on a disagreement
VerifyLanguage_DisagreeKeepsDeclared(language, cld_language) ==
    IF language = <<>>
    THEN [language |-> cld_language, reported |-> <<"CLD_ONLY">>]
    ELSE IF cld_language = kUnknownLanguageCode
    THEN [language |-> language, reported |-> <<"UNKNOWN">>]
    ELSE IF CanCLDComplementSubCode(language, cld_language)
    THEN [language |-> cld_language,
          reported |-> <<"CLD_COMPLEMENT_SUB_CODE">>]
    ELSE IF IsSameOrSimilarLanguages(language, cld_language)
    THEN [language |-> language, reported |-> <<"CLD_AGREE">>]
    ELSE IF MaybeServerWrongConfiguration(language, cld_language)
    THEN [language |-> cld_language, reported |-> <<"TRUST_CLD">>]
    ELSE [language |-> language, reported |-> <<"CLD_DISAGREE">>]

\* DeterminePageLanguage: the verification of the declared language
\* against the CLD language
VerifyLanguage(language, cld_language) ==
    IF language = <<>>
    THEN [language |-> cld_language, reported |-> <<"CLD_ONLY">>]
    ELSE IF cld_language = kUnknownLanguageCode
    THEN [language |-> language, reported |-> <<"UNKNOWN">>]
    ELSE IF CanCLDComplementSubCode(language, cld_language)
    THEN [language |-> cld_language,
          reported |-> <<"CLD_COMPLEMENT_SUB_CODE">>]
    ELSE IF IsSameOrSimilarLanguages(language, cld_language)
    THEN [language |-> language, reported |-> <<"CLD_AGREE">>]
    ELSE IF MaybeServerWrongConfiguration(language, cld_language)
    THEN [language |-> cld_language, reported |-> <<"TRUST_CLD">>]
    ELSE [language |-> kUnknownLanguageCode,
          reported |-> <<"CLD_DISAGREE">>]

\* DeterminePageLanguage
DeterminePageLanguage(p) ==
    LET cld_language ==
            ToTranslateLanguageSynonym(
                DetermineTextLanguage(p.cld, p.is_reliable, p.text_bytes))
        language == DeclaredLanguage(p.code, p.html_lang)
        verified == IF p.enabled THEN VerifyLanguage(language, cld_language)
                    ELSE [language |-> language,
                          reported |-> <<"CLD_DISABLED">>]
    IN  [done |-> TRUE,
         language |-> verified.language,
         reported |-> verified.reported,
         declared |-> language,
         cld_language |-> IF p.enabled THEN cld_language
                          ELSE kUnknownLanguageCode]

\* the html lang attributes of the pages
HtmlLangs ==
    { <<>>,
      Str(<<"e", "n">>), Str(<<"E", "N", "_", "u", "s">>),
      Str(<<"z", "h">>), Str(<<"z", "h", "-", "T", "W">>),
      Str(<<"b", "s">>), Str(<<"h", "i", "l">>), Str(<<"f", "r">>),
      Str(<<"u", "n", "d">>), Str(<<"e", "s">>),
      Str(<<"e", "n", "1">>) }

\* the Content-Language headers of the pages
ContentLanguages ==
    { <<>>,
      Str(<<"e", "n">>), Str(<<"z", "h">>), Str(<<"e", "s">>),
      Str(<<"f", "r", ",", "e", "n">>), Str(<<"k", "o", "-", "K", "R">>),
      Str(<<"e", "n", "-", "-">>) }

\* the byte counts CLD reports
TextBytes == {kMinTextBytes - 1, kMinTextBytes}

Determine ==
    /\ ~verdict.done
    /\ verdict' = DeterminePageLanguage(page)
    /\ UNCHANGED <<code, corrected, page, dialogVars>>

InitPage ==
    /\ InitDialogs
    /\ visible
    /\ code = <<>>
    /\ corrected = <<>>
    /\ page \in [code : ContentLanguages, html_lang : HtmlLangs,
                 cld : CldLanguages, is_reliable : BOOLEAN,
                 text_bytes : TextBytes, enabled : BOOLEAN]
    /\ verdict = NoVerdict

NextPage == Determine

SpecPage == InitPage /\ [][NextPage]_vars

\* ------------------------------------------------------------------------
\* Properties of the dialog manager
\* ------------------------------------------------------------------------

\* the dialog is shown: it is in the list and the last request made for it
\* since it was put there is ShowDialog
Shown(h) == h \in DialogsOf(child_dialogs) /\ native_request[h] = "show"

IsShowCall(c) == c.fn = "ShowDialog"

IsUnblockCall(c) == c.fn = "SetWebContentsBlocked" /\ ~c.flag

IsNativeCall(c) == c.fn # "SetWebContentsBlocked"

ShowCalls == SelectSeq(calls, IsShowCall)

\* C1: in every reachable state every shown dialog is the front entry of
\* the list, so at most one dialog is shown.
C1_OnlyFrontShown ==
    \A h \in Handles :
        Shown(h) => child_dialogs # <<>> /\ child_dialogs[1].dialog = h

\* a removal has brought a second dialog to the front, which is shown while
\* another dialog waits behind it
C1_Witness ==
    /\ lastOp.op = "WillClose"
    /\ Len(child_dialogs) >= 2
    /\ Len(pre.child_dialogs) = Len(child_dialogs) + 1
    /\ Shown(child_dialogs[1].dialog)
    /\ child_dialogs[2].dialog # child_dialogs[1].dialog

\* C2: the list never holds two entries with the same handle, and
\* ShowDialog of a handle that is already in the list changes neither the
\* list nor the blocked state.
C2_NoDuplicateHandles ==
    /\ \A i, j \in 1..Len(child_dialogs) :
           child_dialogs[i].dialog = child_dialogs[j].dialog => i = j
    /\ (lastOp.op = "ShowDialog"
        /\ lastOp.dialog \in DialogsOf(pre.child_dialogs))
       => (child_dialogs = pre.child_dialogs /\ blocked = pre.blocked)

\* C3: after every completed operation the blocked state last given to the
\* delegate is true exactly when the list is non-empty, and IsShowingDialog
\* returns that value.
C3_BlockedIffNonEmpty ==
    pc \in {"idle", "destroyed"} =>
        /\ blocked = (Len(child_dialogs) > 0)
        /\ IsShowingDialog = blocked

\* the removal of the last entry has unblocked a host that was blocked
C3_Witness ==
    /\ pc = "idle"
    /\ lastOp.op = "WillClose"
    /\ pre.blocked
    /\ Len(pre.child_dialogs) = 1
    /\ child_dialogs = <<>>
    /\ ~blocked

\* C4: a WillClose that removes the front entry of a list with more entries
\* leaves the rest in order and asks the adapter to show exactly the new
\* front; a WillClose that removes another entry asks for no show and keeps
\* the front and the order of the remaining entries.
C4_NextShownInOrder ==
    (lastOp.op = "WillClose" /\ ~pre.closing_all_dialogs) =>
        LET old == pre.child_dialogs
            i == FindDialogState(old, lastOp.dialog)
        IN  /\ (i = 1 /\ Len(old) > 1) =>
                   /\ Len(child_dialogs) = Len(old) - 1
                   /\ \A k \in 1..Len(child_dialogs) :
                          child_dialogs[k] = old[k + 1]
                   /\ ShowCalls = <<NativeCall("ShowDialog", old[2].dialog)>>
            /\ (1 < i /\ i <= Len(old)) =>
                   /\ ShowCalls = <<>>
                   /\ Len(child_dialogs) = Len(old) - 1
                   /\ child_dialogs[1] = old[1]
                   /\ \A k \in 1..Len(child_dialogs) :
                          child_dialogs[k] = IF k < i THEN old[k]
                                             ELSE old[k + 1]

\* the front of three entries was removed and the second one is shown, with
\* a different dialog still waiting behind it
C4_Witness ==
    /\ lastOp.op = "WillClose"
    /\ Len(pre.child_dialogs) = 3
    /\ pre.child_dialogs[1].dialog = lastOp.dialog
    /\ ShowCalls = <<NativeCall("ShowDialog", pre.child_dialogs[2].dialog)>>
    /\ Len(child_dialogs) = 2
    /\ child_dialogs[1].dialog # child_dialogs[2].dialog

\* C5: a CloseAllDialogs call made on a non-empty list returns with the
\* list empty and has then given the delegate exactly one
\* SetWebContentsBlocked(false).
C5_CloseAllUnblocksOnce ==
    (lastOp.op = "CloseAllDialogs" /\ pc = "idle"
     /\ pre.child_dialogs # <<>>) =>
        /\ child_dialogs = <<>>
        /\ Len(SelectSeq(calls, IsUnblockCall)) = 1

\* CloseAllDialogs has returned from a list of three entries, each closed
\* by the first request
C5_Witness ==
    /\ lastOp.op = "CloseAllDialogs"
    /\ pc = "idle"
    /\ Len(pre.child_dialogs) = 3
    /\ spins = 0
    /\ child_dialogs = <<>>

\* C6: the load-start notification requests CloseDialog exactly when the
\* list is non-empty and the front entry's flag is false, for the front
\* entry only, and changes neither the list, its flags nor the blocked
\* state.
C6_LoadStartClosesFront ==
    lastOp.op = "ObserveLoadStart" =>
        /\ calls = IF pre.child_dialogs # <<>>
                      /\ ~pre.child_dialogs[1].prevent_close_on_load_start
                   THEN <<NativeCall("CloseDialog",
                                     pre.child_dialogs[1].dialog)>>
                   ELSE <<>>
        /\ child_dialogs = pre.child_dialogs
        /\ blocked = pre.blocked

\* a load start with the flag set on the front entry and clear on a queued
\* one has requested nothing
C6_Witness ==
    /\ lastOp.op = "ObserveLoadStart"
    /\ Len(child_dialogs) >= 2
    /\ child_dialogs[1].prevent_close_on_load_start
    /\ ~child_dialogs[2].prevent_close_on_load_start
    /\ calls = <<>>

\* C7: SetPreventCloseOnLoadStart(dialog, prevent) for a dialog in the list
\* sets the flag of its entry to prevent and changes no other entry, nor
\* the order, nor the blocked state.
C7_SetPreventStoresArgument ==
    (lastOp.op = "SetPreventCloseOnLoadStart"
     /\ lastOp.dialog \in DialogsOf(pre.child_dialogs)) =>
        LET old == pre.child_dialogs
            loc == FindDialogState(old, lastOp.dialog)
        IN  /\ Len(child_dialogs) = Len(old)
            /\ child_dialogs[loc].prevent_close_on_load_start = lastOp.prevent
            /\ \A k \in 1..Len(old) :
                   /\ child_dialogs[k].dialog = old[k].dialog
                   /\ k # loc => child_dialogs[k] = old[k]
            /\ blocked = pre.blocked

\* C8: WillClose for a dialog that is not in the list changes neither the
\* list, its flags nor the blocked state, and calls neither the adapter nor
\* the delegate.
C8_SecondWillCloseIgnored ==
    (lastOp.op = "WillClose"
     /\ lastOp.dialog \notin DialogsOf(pre.child_dialogs)) =>
        /\ child_dialogs = pre.child_dialogs
        /\ blocked = pre.blocked
        /\ calls = <<>>

\* a WillClose for a dialog that is not in a non-empty, blocked list
C8_Witness ==
    /\ lastOp.op = "WillClose"
    /\ pre.child_dialogs # <<>>
    /\ lastOp.dialog \notin DialogsOf(pre.child_dialogs)
    /\ child_dialogs = pre.child_dialogs
    /\ blocked

\* C9: SetPreventCloseOnLoadStart for a dialog that is not in the list does
\* not end the process and changes neither the list, its flags nor the
\* blocked state.
C9_SetPreventAbsentTolerated ==
    (lastOp.op = "SetPreventCloseOnLoadStart"
     /\ lastOp.dialog \notin DialogsOf(pre.child_dialogs)) =>
        /\ pc # "crashed"
        /\ child_dialogs = pre.child_dialogs
        /\ blocked = pre.blocked

\* a CloseAllDialogs call is the operation invoked last
InCloseAll == lastOp.op \in {"CloseAllDialogs", "WebContentsDestroyed"}

IsBlockCall(c) == c.fn = "SetWebContentsBlocked"

IsCloseCall(c) == c.fn = "CloseDialog"

\* the CloseDialog requests of the current operation that were answered by
\* a WillClose: each answer makes one BlockWebContentsInteraction call
Answered == Len(SelectSeq(calls, IsBlockCall))

\* C19: CloseAllDialogs makes no ShowDialog request although each removal
\* takes the front entry away; closing_all_dialogs_ is false whenever no
\* CloseAllDialogs call is running, so a WillClose of the front entry
\* after the call shows the next entry.
C19_CloseAllShowsNothing ==
    /\ InCloseAll => ShowCalls = <<>>
    /\ pc # "closing" => ~closing_all_dialogs
    /\ (lastOp.op = "WillClose"
        /\ Len(pre.child_dialogs) > 1
        /\ pre.child_dialogs[1].dialog = lastOp.dialog) =>
           ShowCalls = <<NativeCall("ShowDialog",
                                    pre.child_dialogs[2].dialog)>>

\* CloseAllDialogs has removed the front entry of three and two entries
\* are left
C19_Witness ==
    /\ lastOp.op = "CloseAllDialogs"
    /\ pc = "closing"
    /\ closing_all_dialogs
    /\ Len(pre.child_dialogs) = 3
    /\ Len(child_dialogs) = 2
    /\ Answered = 1
    /\ ShowCalls = <<>>

C21_VisibilityChangeFrontOnly ==
    lastOp.op = "ObserveVisibilityChanged" =>
        /\ pre.child_dialogs = <<>> => calls = <<>>
        /\ pre.child_dialogs # <<>> =>
               calls = <<NativeCall(IF lastOp.visible THEN "ShowDialog"
                                    ELSE "HideDialog",
                                    pre.child_dialogs[1].dialog)>>
        /\ child_dialogs = pre.child_dialogs
        /\ closing_all_dialogs = pre.closing_all_dialogs
        /\ blocked = pre.blocked

\* the host became invisible while a second dialog waits behind the front
\* entry: the front entry is hidden and the waiting one has no request
C21_Witness ==
    /\ lastOp.op = "ObserveVisibilityChanged"
    /\ ~lastOp.visible
    /\ Len(child_dialogs) >= 2
    /\ child_dialogs[2].dialog # child_dialogs[1].dialog
    /\ native_request[child_dialogs[1].dialog] = "hide"
    /\ native_request[child_dialogs[2].dialog] = "none"
    /\ blocked

\* C22: no dialog is shown while the host is invisible, and an operation
\* makes a ShowDialog request only when the host is visible.
C22_ShownOnlyWhenVisible ==
    /\ \A h \in Handles : Shown(h) => visible
    /\ ShowCalls # <<>> => visible

\* ------------------------------------------------------------------------
\* Properties of the language code correction
\* ------------------------------------------------------------------------

\* C10: the correction is idempotent: correcting the result of a correction
\* gives that result again, for every input string.
C10_CorrectionIdempotent ==
    Len(corrected) = 2 => corrected[2] = corrected[1]

\* a code with an underscore was corrected to a valid code that differs
\* from it, and that code was corrected again
C10_Witness ==
    /\ Len(corrected) = 2
    /\ Find(code, 95) # 0
    /\ corrected[1] # <<>>
    /\ corrected[1] # code

IsLowerAlpha(c) == c \in 97..122

IsUpperAlpha(c) == c \in 65..90

\* a code of the form the correction is documented to let through: a
\* primary tag of 2 to 3 lowercase letters and, after a dash, a region of
\* exactly 2 uppercase letters
WellFormedCode(s) ==
    LET chunks == SplitString(s, 45) IN
    /\ Len(chunks) \in {1, 2}
    /\ Len(chunks[1]) \in {2, 3}
    /\ \A i \in 1..Len(chunks[1]) : IsLowerAlpha(chunks[1][i])
    /\ Len(chunks) = 2 =>
           /\ Len(chunks[2]) = 2
           /\ \A i \in 1..2 : IsUpperAlpha(chunks[2][i])

\* C11: the result of the correction is the empty string or a code with a
\* primary tag of 2 to 3 lowercase letters and, if it has a region, a
\* region of exactly 2 uppercase letters; a one-letter tag gives the empty
\* string.
C11_ResultWellFormed ==
    Len(corrected) >= 1 =>
        corrected[1] = <<>> \/ WellFormedCode(corrected[1])

\* ------------------------------------------------------------------------
\* Properties of DeterminePageLanguage
\* ------------------------------------------------------------------------

\* the corrected code, or the empty string when the code is not valid
Normalized(s) ==
    IF IsValidLanguageCode(CorrectLanguageCodeTypo(s))
    THEN ToTranslateLanguageSynonym(CorrectLanguageCodeTypo(s))
    ELSE <<>>

\* the call was made with CLD compiled in
Verified == verdict.done /\ page.enabled

\* the CLD answer is one DetermineTextLanguage trusts
CldTrusted ==
    /\ page.is_reliable
    /\ page.text_bytes >= 100
    /\ page.cld \notin {"NUM_LANGUAGES", "UNKNOWN_LANGUAGE",
                        "TG_UNKNOWN_LANGUAGE"}

ZH == Str(<<"z", "h">>)

ZH_TW == Str(<<"z", "h", "-", "T", "W">>)

ZH_CN == Str(<<"z", "h", "-", "C", "N">>)

EN == Str(<<"e", "n">>)

UND == Str(<<"u", "n", "d">>)

\* the code begins with "en" in either case
BeginsWithEn(s) ==
    Len(s) >= 2 /\ s[1] \in {69, 101} /\ s[2] \in {78, 110}

\* the code begins with "zh-"
BeginsWithZhDash(s) ==
    Len(s) >= 3 /\ s[1] = 122 /\ s[2] = 104 /\ s[3] = 45

\* C12: the declared language is the normalized html lang when that is
\* valid, whatever the header; otherwise the normalized header when that
\* is valid; otherwise empty.
C12_DeclaredLanguage ==
    verdict.done =>
        verdict.declared =
            IF Normalized(page.html_lang) # <<>>
            THEN Normalized(page.html_lang)
            ELSE IF Normalized(page.code) # <<>>
            THEN Normalized(page.code)
            ELSE <<>>

\* an invalid html lang attribute has left the declaration to a valid
\* header that had to be corrected
C12_Witness ==
    /\ verdict.done
    /\ page.html_lang # <<>>
    /\ Normalized(page.html_lang) = <<>>
    /\ verdict.declared # <<>>
    /\ verdict.declared # page.code

\* C13: with CLD compiled in and no declared language the result is the
\* CLD language, reported as CLD_ONLY, also when that is the unknown
\* language.
C13_ClassifierOnly ==
    (Verified /\ verdict.declared = <<>>) =>
        /\ verdict.language = verdict.cld_language
        /\ verdict.reported = <<"CLD_ONLY">>
        /\ ~CldTrusted => verdict.language = UND

\* a page without a valid declaration and with text CLD is not sure about
C13_Witness ==
    /\ Verified
    /\ verdict.declared = <<>>
    /\ page.html_lang # <<>>
    /\ ~page.is_reliable
    /\ verdict.language = UND
    /\ verdict.reported = <<"CLD_ONLY">>

C15_ComplementSubCode ==
    (Verified /\ CldTrusted /\ BeginsWithZhDash(verdict.cld_language)) =>
        /\ verdict.declared = ZH =>
               /\ verdict.language = verdict.cld_language
               /\ verdict.reported = <<"CLD_COMPLEMENT_SUB_CODE">>
        /\ verdict.declared = ZH_TW =>
               /\ verdict.language = ZH_TW
               /\ verdict.reported = <<"CLD_AGREE">>

\* a page declared "zh" with Simplified Chinese text
C15_Witness ==
    /\ Verified
    /\ verdict.declared = ZH
    /\ verdict.language = ZH_CN
    /\ verdict.reported = <<"CLD_COMPLEMENT_SUB_CODE">>

\* the part of a code before its first dash
PrimaryTag(s) == SplitString(s, 45)[1]

\* the group of the similar-language table the tag is listed in, or 0
GroupOfTag(tag) ==
    IF \E i \in 1..Len(kSimilarLanguageCodes) :
           kSimilarLanguageCodes[i].code = tag
    THEN kSimilarLanguageCodes[
             CHOOSE i \in 1..Len(kSimilarLanguageCodes) :
                 kSimilarLanguageCodes[i].code = tag].group
    ELSE 0

\* the two codes have the same first two characters, or their primary tags
\* are listed in the same group of the similar-language table
SameOrSimilar(declared, classifier) ==
    \/ /\ Len(declared) >= 2
       /\ Len(classifier) >= 2
       /\ SubSeq(declared, 1, 2) = SubSeq(classifier, 1, 2)
    \/ /\ GroupOfTag(PrimaryTag(declared)) # 0
       /\ GroupOfTag(PrimaryTag(declared)) =
              GroupOfTag(PrimaryTag(classifier))

\* C16: IsSameOrSimilarLanguages is true exactly when the first two
\* characters of the two codes are equal or their primary tags are in the
\* same group of the similar-language table, and when it is true for a
\* declared language and a trusted CLD language outside the "zh" rule the
\* result is the declared language, reported as CLD_AGREE.
C16_SameOrSimilar ==
    (Verified /\ CldTrusted /\ verdict.declared # <<>>) =>
        /\ IsSameOrSimilarLanguages(verdict.declared, verdict.cld_language)
               = SameOrSimilar(verdict.declared, verdict.cld_language)
        /\ (SameOrSimilar(verdict.declared, verdict.cld_language)
            /\ ~(verdict.declared = ZH
                 /\ BeginsWithZhDash(verdict.cld_language))) =>
               /\ verdict.language = verdict.declared
               /\ verdict.reported = <<"CLD_AGREE">>

\* C17: a declared language that begins with "en", a trusted CLD language
\* of the well-known list and no similarity between the two give the CLD
\* language, reported as TRUST_CLD; no other declared language is ever
\* reported as TRUST_CLD.
C17_SuspectedMisconfiguration ==
    Verified =>
        /\ (/\ CldTrusted
            /\ BeginsWithEn(verdict.declared)
            /\ verdict.cld_language \in kWellKnownCodesOnWrongConfiguration
            /\ ~SameOrSimilar(verdict.declared, verdict.cld_language)) =>
               /\ verdict.language = verdict.cld_language
               /\ verdict.reported = <<"TRUST_CLD">>
        /\ verdict.reported = <<"TRUST_CLD">> =>
               BeginsWithEn(verdict.declared)

\* a page declared "en-US" with reliable Spanish text
C17_Witness ==
    /\ Verified
    /\ verdict.declared = Str(<<"e", "n", "-", "U", "S">>)
    /\ verdict.cld_language = Str(<<"e", "s">>)
    /\ verdict.language = Str(<<"e", "s">>)
    /\ verdict.reported = <<"TRUST_CLD">>

VerificationTypes ==
    {"CLD_ONLY", "UNKNOWN", "CLD_COMPLEMENT_SUB_CODE", "CLD_AGREE",
     "TRUST_CLD", "CLD_DISAGREE"}

====
